---- MODULE Spec2Model ----
(***************************************************************************)
(* Model of the tableau simplex solver of src/unnamed/part_001             *)
(* (solveLinearProgram and its pivot engine runSimplexIterations).         *)
(*                                                                         *)
(* Numbers are exact rationals <<numerator, denominator>> (denominator     *)
(* positive, lowest terms).  The code computes in IEEE doubles; on the     *)
(* inputs drawn here every rounding error is many orders of magnitude      *)
(* below the code's tolerances 1e-9 and 1e-5, so every comparison the code *)
(* makes has the outcome computed here.                                    *)
(*                                                                         *)
(* Arrays keep the code's 0-based indices: a tableau row is a function     *)
(* over 0..colCount-1, the matrix a function over 0..numRows-1.  The       *)
(* inputs objCoeffs, constraints and c.coefficients are sequences (entry   *)
(* i+1 is the code's index i).                                             *)
(***************************************************************************)
EXTENDS Integers, Sequences, FiniteSets, TLC

\* ------------------------------------------------------------------------
\* Bounds of the explored inputs
\* ------------------------------------------------------------------------
MaxVars == 2
MaxCons == 2
MaxCoef == 1
MaxRhs == 1

\* ------------------------------------------------------------------------
\* Program constants
\* ------------------------------------------------------------------------
M_VAL == 100000
maxIter == 50
\* 1e-9 and 1e-5, held as their reciprocals
TolInv9 == 1000000000
TolInv5 == 100000

\* ------------------------------------------------------------------------
\* Exact rational arithmetic (the JavaScript number operators + - * / < abs)
\* ------------------------------------------------------------------------
\* F(v) with v computed once, before F is applied (a const binding)
Bind(v, F(_)) == CHOOSE out \in {F(w) : w \in {v}} : TRUE

IAbs(i) == IF i < 0 THEN -i ELSE i

RECURSIVE GCD(_, _)
GCD(a, b) == IF b = 0 THEN a ELSE Bind(a % b, LAMBDA r : GCD(b, r))

Norm(n, d) ==
    LET s == IF d < 0 THEN -1 ELSE 1
        g == GCD(IAbs(n), IAbs(d))
    IN  <<(s * n) \div g, (s * d) \div g>>

Rat(i) == <<i, 1>>
Zero == <<0, 1>>
One == <<1, 1>>
RAdd(x, y) == IF y[1] = 0 THEN x ELSE IF x[1] = 0 THEN y
              ELSE Norm(x[1] * y[2] + y[1] * x[2], x[2] * y[2])
RNeg(x) == <<-x[1], x[2]>>
RSub(x, y) == RAdd(x, RNeg(y))
RMul(x, y) == IF x[1] = 0 \/ y[1] = 0 THEN Zero
              ELSE Norm(x[1] * y[1], x[2] * y[2])
RDiv(x, y) == Norm(x[1] * y[2], x[2] * y[1])
RLt(x, y) == x[1] * y[2] < y[1] * x[2]
RLe(x, y) == x[1] * y[2] <= y[1] * x[2]
RAbs(x) == <<IAbs(x[1]), x[2]>>
\* x > 1/k for a positive integer k, without forming x[1] * k
GtTol(x, k) == x[1] > 0 /\ (x[2] \div x[1]) < k
\* x < -1/k
LtNegTol(x, k) == GtTol(RNeg(x), k)

\* ------------------------------------------------------------------------
\* Inputs of solveLinearProgram
\* ------------------------------------------------------------------------
Methods == {"SIMPLEX", "BIG_M", "TWO_PHASE"}
Types == {"MAX", "MIN"}
Relations == {"<=", ">=", "="}

\* A null entry of the constraints array (reading c.relation on it throws).
NullConstraint == [coefficients |-> <<>>, relation |-> "null", rhs |-> Zero]

Con(coefs, rel, rhs) ==
    [coefficients |-> [i \in 1..Len(coefs) |-> Rat(coefs[i])],
     relation |-> rel, rhs |-> Rat(rhs)]

CoefVals == {Rat(i) : i \in (0 - MaxCoef)..MaxCoef}
RhsVals == {Rat(i) : i \in 0..MaxRhs}
\* MIN over c builds the objective row that MAX over -c builds (line 117), so
\* non-negative objective coefficients under both directions give every
\* objective row over CoefVals.
ObjVals == {Rat(i) : i \in 0..MaxCoef}

ConstraintSet(n) ==
    [coefficients : [1..n -> CoefVals], relation : Relations, rhs : RhsVals]

\* Every problem with 1..MaxVars variables and 1..MaxCons constraints over
\* the bounded coefficient values.
BoundedProblems ==
    UNION {[objCoeffs : [1..n -> ObjVals], constraints : [1..m -> ConstraintSet(n)]]
             : <<n, m>> \in (1..MaxVars) \X (1..MaxCons)}

\* maximise 3x1+5x2 s.t. x1<=4, 2x2<=12, 3x1+2x2<=18
WyndorProblem ==
    [objCoeffs |-> <<Rat(3), Rat(5)>>,
     constraints |-> <<Con(<<1, 0>>, "<=", 4), Con(<<0, 2>>, "<=", 12),
                       Con(<<3, 2>>, "<=", 18)>>]

\* x1 >= 5 together with x1 <= 2
InfeasibleProblem ==
    [objCoeffs |-> <<Rat(1)>>,
     constraints |-> <<Con(<<1>>, ">=", 5), Con(<<1>>, "<=", 2)>>]

\* x1 = 2
EqualityProblem ==
    [objCoeffs |-> <<Rat(1)>>, constraints |-> <<Con(<<1>>, "=", 2)>>]

\* Beale's degenerate problem: maximise 3/4 x1 - 20 x2 + 1/2 x3 - 6 x4
\* s.t. 1/4 x1 - 8 x2 - x3 + 9 x4 <= 0, 1/2 x1 - 12 x2 - 1/2 x3 + 3 x4 <= 0,
\* x3 <= 1.  Its maximum is 5/4 at (1, 0, 1, 0).
BealeProblem ==
    [objCoeffs |-> <<<<3, 4>>, Rat(-20), <<1, 2>>, Rat(-6)>>,
     constraints |->
        <<[coefficients |-> <<<<1, 4>>, Rat(-8), Rat(-1), Rat(9)>>,
           relation |-> "<=", rhs |-> Zero],
          [coefficients |-> <<<<1, 2>>, Rat(-12), <<-1, 2>>, Rat(3)>>,
           relation |-> "<=", rhs |-> Zero],
          Con(<<0, 0, 1, 0>>, "<=", 1)>>]

\* maximise x1 + x2 s.t. -x1 >= -1 (x1 <= 1 written with negative sides)
NegativeRhsProblem ==
    [objCoeffs |-> <<Rat(1), Rat(1)>>, constraints |-> <<Con(<<-1, 0>>, ">=", -1)>>]

\* A constraints array holding a null entry.
MalformedProblem ==
    [objCoeffs |-> <<Rat(1)>>,
     constraints |-> <<Con(<<1>>, "<=", 1), NullConstraint>>]

\* maximise x1 + ... + xn s.t. xi <= 1 for every i, with n the number of
\* pivots the engine allows: every variable enters once, so the optimum
\* (n, at xi = 1) is reached by the n-th pivot
FullLengthProblem ==
    [objCoeffs |-> [j \in 1..maxIter |-> One],
     constraints |-> [i \in 1..maxIter |->
                        [coefficients |-> [j \in 1..maxIter |-> IF j = i THEN One ELSE Zero],
                         relation |-> "<=", rhs |-> One]]]

NamedProblems ==
    {WyndorProblem, InfeasibleProblem, EqualityProblem, BealeProblem,
     NegativeRhsProblem, MalformedProblem, FullLengthProblem}

Problems == BoundedProblems \cup NamedProblems

\* ------------------------------------------------------------------------
\* Problem normaliser (solveLinearProgram, lines 25-118)
\* ------------------------------------------------------------------------
\* The names pushed for the constraints whose relation is in rels, in order.
RECURSIVE VarNames(_, _, _, _)
VarNames(cons, i, rels, tag) ==
    IF i > Len(cons) THEN <<>>
    ELSE (IF cons[i].relation \in rels THEN <<<<tag, i>>>> ELSE <<>>)
         \o VarNames(cons, i + 1, rels, tag)

slackVars(cons) == VarNames(cons, 1, {"<="}, "s")
surplusVars(cons) == VarNames(cons, 1, {">="}, "e")
artificialVars(cons) == VarNames(cons, 1, {">=", "="}, "a")

\* headers as a 0-based array of names <<prefix, number>>
BuildHeaders(n, cons) ==
    LET hs == <<<<"Z", 0>>>> \o [i \in 1..n |-> <<"x", i>>] \o slackVars(cons)
              \o surplusVars(cons) \o artificialVars(cons) \o <<<<"LD", 0>>>>
    IN  [c \in 0..(Len(hs) - 1) |-> hs[c + 1]]

StartsWithA(h) == h[1] = "a"

ColCount(hs) == Cardinality(DOMAIN hs)
RhsCol(hs) == ColCount(hs) - 1

\* how many of the constraints before the i-th (1-based) have a relation in rels
CountBefore(cons, i, rels) == Cardinality({j \in 1..(i - 1) : cons[j].relation \in rels})

\* currentSlackIdx / currentSurplusIdx / currentArtificialIdx when the forEach
\* of line 72 reaches the i-th constraint
SlackIdx(n, cons, i) == 1 + n + CountBefore(cons, i, {"<="})
SurplusIdx(n, cons, i) ==
    1 + n + Len(slackVars(cons)) + CountBefore(cons, i, {">="})
ArtificialIdx(n, cons, i) ==
    1 + n + Len(slackVars(cons)) + Len(surplusVars(cons))
      + CountBefore(cons, i, {">=", "="})

\* initialBasis[i-1]
InitialBasisEntry(n, cons, i) ==
    IF cons[i].relation = "<=" THEN SlackIdx(n, cons, i)
    ELSE ArtificialIdx(n, cons, i)

BuildBasis(n, cons) ==
    [k \in 0..(Len(cons) - 1) |-> InitialBasisEntry(n, cons, k + 1)]

\* matrix[i] for the i-th constraint: the later assignments of lines 76-98
\* win over the earlier ones
ConstraintRow(n, cons, i, cc) ==
    LET con == cons[i]
        rel == con.relation
    IN  [c \in 0..(cc - 1) |->
           IF rel = "<=" /\ c = SlackIdx(n, cons, i) THEN One
           ELSE IF rel = ">=" /\ c = SurplusIdx(n, cons, i) THEN Rat(-1)
           ELSE IF rel \in {">=", "="} /\ c = ArtificialIdx(n, cons, i) THEN One
           ELSE IF c = cc - 1 THEN con.rhs
           ELSE IF c >= 1 /\ c <= Len(con.coefficients) THEN con.coefficients[c]
           ELSE Zero]

\* matrix[0] after lines 102-118
ObjectiveRow(type, obj, cc) ==
    [c \in 0..(cc - 1) |->
       IF c = 0 THEN One
       ELSE IF c <= Len(obj) THEN (IF type = "MIN" THEN obj[c] ELSE RNeg(obj[c]))
       ELSE Zero]

BuildMatrix(type, obj, cons) ==
    LET cc == ColCount(BuildHeaders(Len(obj), cons))
    IN  [r \in 0..Len(cons) |->
           IF r = 0 THEN ObjectiveRow(type, obj, cc)
           ELSE ConstraintRow(Len(obj), cons, r, cc)]

\* the pre-scan of line 43 reads c.relation of every entry
NormalizeThrows(cons) == \E i \in 1..Len(cons) : cons[i] = NullConstraint


\* ------------------------------------------------------------------------
\* Method-specific preparation of the objective row (lines 125-169, 209-243)
\* ------------------------------------------------------------------------
\* artIndices: the columns whose header starts with 'a', ascending
RECURSIVE ArtIndicesFrom(_, _)
ArtIndicesFrom(hs, c) ==
    IF c >= ColCount(hs) THEN <<>>
    ELSE (IF StartsWithA(hs[c]) THEN <<c>> ELSE <<>>) \o ArtIndicesFrom(hs, c + 1)

ArtIndices(hs) == ArtIndicesFrom(hs, 0)

RowMinusScaled(row, k, other) == [c \in DOMAIN row |-> RSub(row[c], RMul(k, other[c]))]

\* the inner loop "for r = 1 .. numRows-1: if matrix[r][artCol] === 1 then
\* row0 -= k * matrix[r]" for one artificial column
RECURSIVE EliminateRows(_, _, _, _, _)
EliminateRows(row0, M, artCol, k, r) ==
    IF r \notin DOMAIN M THEN row0
    ELSE EliminateRows(IF M[r][artCol] = One THEN RowMinusScaled(row0, k, M[r]) ELSE row0,
                       M, artCol, k, r + 1)

\* artIndices.forEach of lines 159 / 234 from the i-th artificial column on
RECURSIVE EliminateArtificials(_, _, _, _, _)
EliminateArtificials(row0, M, arts, k, i) ==
    IF i > Len(arts) THEN row0
    ELSE EliminateArtificials(EliminateRows(row0, M, arts[i], k, 1), M, arts, k, i + 1)

\* row 0 with v stored in every artificial column
WithArtificials(row0, hs, v) == [c \in DOMAIN row0 |-> IF StartsWithA(hs[c]) THEN v ELSE row0[c]]

\* the phase-1 objective row: W + sum of artificials, artificials eliminated
Phase1Row(M, hs) ==
    LET fresh == [c \in DOMAIN hs |-> IF c = 0 THEN One ELSE Zero]
    IN  EliminateArtificials(WithArtificials(fresh, hs, One), M, ArtIndices(hs), One, 1)

\* the Big-M objective row: M_VAL in every artificial column, then eliminated
BigMRow(M, hs) ==
    EliminateArtificials(WithArtificials(M[0], hs, Rat(M_VAL)), M, ArtIndices(hs),
                         Rat(M_VAL), 1)

\* initialBasis.forEach of lines 194-203 from basis entry k on: re-zero the
\* restored objective row against the current basis
RECURSIVE ReZero(_, _, _, _)
ReZero(row0, M, b, k) ==
    IF k \notin DOMAIN b THEN row0
    ELSE LET basisCoeffInObj == row0[b[k]]
         IN  ReZero(IF GtTol(RAbs(basisCoeffInObj), TolInv9)
                    THEN RowMinusScaled(row0, basisCoeffInObj, M[k + 1])
                    ELSE row0,
                    M, b, k + 1)

\* ------------------------------------------------------------------------
\* Pivot engine (runSimplexIterations, lines 302-424)
\* ------------------------------------------------------------------------
\* the scan of lines 329-337 over the columns lo..hi-1, one half after the
\* other; ec is enteringCol so far (minVal is -1e-9 while ec = -1 and
\* row[ec] afterwards)
RECURSIVE EnteringScan(_, _, _, _)
EnteringScan(row, lo, hi, ec) ==
    IF hi <= lo THEN ec
    ELSE IF hi = lo + 1
         THEN (IF (IF ec = -1 THEN LtNegTol(row[lo], TolInv9) ELSE RLt(row[lo], row[ec]))
               THEN lo ELSE ec)
    ELSE Bind(EnteringScan(row, lo, (lo + hi) \div 2, ec), LAMBDA first :
              EnteringScan(row, (lo + hi) \div 2, hi, first))

EnteringCol(M) == EnteringScan(M[0], 1, Cardinality(DOMAIN M[0]) - 1, -1)

Ratio(M, r, ec) == RDiv(M[r][Cardinality(DOMAIN M[r]) - 1], M[r][ec])

\* a ratio test that lets a later row with the same ratio win
RECURSIVE LeavingScanLastTie(_, _, _, _, _)
LeavingScanLastTie(M, ec, lo, hi, lr) ==
    IF hi <= lo THEN lr
    ELSE IF hi = lo + 1
         THEN (IF GtTol(M[lo][ec], TolInv9)
                  /\ (lr = -1 \/ RLe(Ratio(M, lo, ec), Ratio(M, lr, ec)))
               THEN lo ELSE lr)
    ELSE Bind(LeavingScanLastTie(M, ec, lo, (lo + hi) \div 2, lr), LAMBDA first :
              LeavingScanLastTie(M, ec, (lo + hi) \div 2, hi, first))

\* the ratio test of lines 354-366 over the rows lo..hi-1, one half after
\* the other; lr is leavingRow so far (minRatio is Infinity while lr = -1
\* and the ratio of row lr afterwards)
RECURSIVE LeavingScan(_, _, _, _, _)
LeavingScan(M, ec, lo, hi, lr) ==
    IF hi <= lo THEN lr
    ELSE IF hi = lo + 1
         THEN (IF GtTol(M[lo][ec], TolInv9)
                  /\ (lr = -1 \/ RLt(Ratio(M, lo, ec), Ratio(M, lr, ec)))
               THEN lo ELSE lr)
    ELSE Bind(LeavingScan(M, ec, lo, (lo + hi) \div 2, lr), LAMBDA first :
              LeavingScan(M, ec, (lo + hi) \div 2, hi, first))

LeavingRow(M, ec) == LeavingScan(M, ec, 1, Cardinality(DOMAIN M), -1)

\* line 316: while (iter < maxIter)
LoopContinues(it) == it < maxIter

\* lines 401-404: the pivot row divided by the pivot value
NormalizedRow(M, lr, ec) == [c \in DOMAIN M[lr] |-> RDiv(M[lr][c], M[lr][ec])]

\* lines 407-416: every other row with |factor| > 1e-9 loses factor * pivot row
Pivot(M, lr, ec) ==
    Bind(NormalizedRow(M, lr, ec), LAMBDA prow :
        [r \in DOMAIN M |->
           IF r = lr THEN prow
           ELSE IF GtTol(RAbs(M[r][ec]), TolInv9) THEN RowMinusScaled(M[r], M[r][ec], prow)
           ELSE M[r]])

\* the whole loop as a function of the tableau and basis it is given:
\* the value returned, the tableau and basis left behind, the pivots made
RECURSIVE RunSimplexIterations(_, _, _)
RunSimplexIterations(M, b, it) ==
    IF ~LoopContinues(it) THEN [res |-> "UNBOUNDED", M |-> M, basis |-> b, iter |-> it]
    ELSE Bind(EnteringCol(M), LAMBDA ec :
         IF ec = -1 THEN [res |-> "OPTIMAL", M |-> M, basis |-> b, iter |-> it]
         ELSE Bind(LeavingRow(M, ec), LAMBDA lr :
              IF lr = -1 THEN [res |-> "UNBOUNDED", M |-> M, basis |-> b, iter |-> it]
              ELSE Bind([M |-> Pivot(M, lr, ec), basis |-> [b EXCEPT ![lr - 1] = ec]],
                        LAMBDA nxt : RunSimplexIterations(nxt.M, nxt.basis, it + 1))))

\* ------------------------------------------------------------------------
\* Feasibility checks and result extraction (lines 173-180, 245-293)
\* ------------------------------------------------------------------------
MatRhs(M, r) == M[r][Cardinality(DOMAIN M[r]) - 1]

\* a feasibility check that lets every phase-1 optimum pass
Phase1NeverInfeasible(M) == FALSE

\* line 178: Math.abs(matrix[0][RHS_COL]) > 1e-5
Phase1Infeasible(M) == GtTol(RAbs(MatRhs(M, 0)), TolInv5)

\* a check that finds no artificial in any basis
NoArtInBasis(M, b, hs) == FALSE

\* lines 250-254: some artificial is basic with value > 1e-5
ArtInBasis(M, b, hs) ==
    \E i \in DOMAIN b : StartsWithA(hs[b[i]]) /\ GtTol(MatRhs(M, i + 1), TolInv5)

\* lines 270-278: 0 for every variable, then the basis rows in order
FinalValues(M, b, hs) ==
    [h \in {hs[c] : c \in 1..(ColCount(hs) - 2)} |->
       LET rows == {i \in DOMAIN b : hs[b[i]] = h}
       IN  IF rows = {} THEN Zero
           ELSE MatRhs(M, 1 + CHOOSE i \in rows : \A j \in rows : j <= i)]

\* the objective value read off row 0 whatever the direction
ZValueUnsigned(M, type) == MatRhs(M, 0)

\* lines 280-286
ZValue(M, type) == IF type = "MIN" THEN RNeg(MatRhs(M, 0)) ELSE MatRhs(M, 0)

NoMessage == ""
NoValues == <<>>

Failure(status, trace) ==
    [status |-> status, steps |-> trace, finalValues |-> NoValues, zValue |-> Zero,
     errorMessage |-> NoMessage]

\* an exception that leaves the call
UncaughtResult == Failure("THROWN", <<>>)

\* the catch block, line 297
CaughtResult ==
    [status |-> "ERROR", steps |-> <<>>, finalValues |-> NoValues, zValue |-> Zero,
     errorMessage |-> "Error interno de calculo"]

\* lines 288-293
Success(M, b, hs, type, trace) ==
    [status |-> "OPTIMAL", steps |-> trace, finalValues |-> FinalValues(M, b, hs),
     zValue |-> ZValue(M, type), errorMessage |-> NoMessage]

UsesTwoPhase(method, cons) == method = "TWO_PHASE" /\ Len(artificialVars(cons)) > 0
UsesBigM(method, cons) == method = "BIG_M" /\ Len(artificialVars(cons)) > 0

\* ------------------------------------------------------------------------
\* solveLinearProgram as a function of its arguments: status, zValue and
\* finalValues of the result (the trace is built by the state machine below)
\* ------------------------------------------------------------------------
Outcome(status, M, b, hs, type) ==
    IF status = "OPTIMAL"
    THEN [status |-> status, zValue |-> ZValue(M, type), finalValues |-> FinalValues(M, b, hs)]
    ELSE [status |-> status, zValue |-> Zero, finalValues |-> NoValues]

SolveTwoPhase(type, M0, b0, hs) ==
    Bind(RunSimplexIterations([M0 EXCEPT ![0] = Phase1Row(M0, hs)], b0, 0), LAMBDA p1 :
        IF p1.res = "UNBOUNDED" THEN Outcome("UNBOUNDED", p1.M, p1.basis, hs, type)
        ELSE IF Phase1Infeasible(p1.M) THEN Outcome("INFEASIBLE", p1.M, p1.basis, hs, type)
        ELSE Bind(RunSimplexIterations(
                      [p1.M EXCEPT ![0] = ReZero(M0[0], p1.M, p1.basis, 0)], p1.basis, 0),
                  LAMBDA p2 : Outcome(p2.res, p2.M, p2.basis, hs, type)))

SolveBigM(type, M0, b0, hs) ==
    Bind(RunSimplexIterations([M0 EXCEPT ![0] = BigMRow(M0, hs)], b0, 0), LAMBDA run :
        IF run.res = "OPTIMAL" /\ ArtInBasis(run.M, run.basis, hs)
        THEN Outcome("INFEASIBLE", run.M, run.basis, hs, type)
        ELSE Outcome(run.res, run.M, run.basis, hs, type))

SolveStandard(type, M0, b0, hs) ==
    Bind(RunSimplexIterations(M0, b0, 0), LAMBDA run :
        Outcome(run.res, run.M, run.basis, hs, type))

solveLinearProgram(method, type, obj, cons) ==
    IF NormalizeThrows(cons) THEN [status |-> "ERROR", zValue |-> Zero, finalValues |-> NoValues]
    ELSE Bind([hs |-> BuildHeaders(Len(obj), cons), M0 |-> BuildMatrix(type, obj, cons),
               b0 |-> BuildBasis(Len(obj), cons)], LAMBDA t :
         IF UsesTwoPhase(method, cons) THEN SolveTwoPhase(type, t.M0, t.b0, t.hs)
         ELSE IF UsesBigM(method, cons) THEN SolveBigM(type, t.M0, t.b0, t.hs)
         ELSE SolveStandard(type, t.M0, t.b0, t.hs))

\* ------------------------------------------------------------------------
\* State of one call of solveLinearProgram, and of the App that calls it
\* ------------------------------------------------------------------------
VARIABLES
    step,             \* App: the screen shown, SETUP / INPUT / RESULT
    numVars,          \* App: number of decision variables
    numConstraints,   \* App: number of constraints
    optType,          \* App: optimisation direction
    method, type, objCoeffs, constraints,   \* the arguments (App: its method,
                                            \* objCoeffs and constraints state)
    pc,               \* position in the call
    headers,          \* column names
    heap,             \* the row arrays allocated by the call, by identity
    matrix,           \* matrix[r]: identity of the array that is row r
    basis,            \* initialBasis / basis
    steps,            \* the trace
    phase,            \* the phase argument of the running engine call
    iter,             \* the engine's iteration counter
    engineResult,     \* what the last engine call returned
    originalObjRow,   \* identity of the saved objective row (two-phase)
    result            \* the SolveResult returned (App: its result state)

args == <<method, type, objCoeffs, constraints>>
\* the App state that is not an argument of the call
app == <<step, numVars, numConstraints, optType>>
\* the state of a call other than its arguments and its result
call == <<pc, headers, heap, matrix, basis, steps, phase, iter, engineResult,
          originalObjRow>>
vars == <<step, numVars, numConstraints, optType, method, type, objCoeffs, constraints,
          pc, headers, heap, matrix, basis, steps, phase, iter, engineResult,
          originalObjRow, result>>

INITIAL_VARS == 2
INITIAL_CONSTRAINTS == 2

NoResult == Failure("NONE", <<>>)
NoVar == <<"", 0>>

\* the tableau the engine sees: row r is the array matrix[r] refers to
Live == [r \in DOMAIN matrix |-> heap[matrix[r]]]

\* in-place update of the arrays that are rows of the matrix
Stored(M) ==
    [id \in DOMAIN heap |->
       IF \E r \in DOMAIN matrix : matrix[r] = id
       THEN M[CHOOSE r \in DOMAIN matrix : matrix[r] = id]
       ELSE heap[id]]

\* a call of solveLinearProgram on any of the problems; the App that made the
\* call is at rest on its INPUT screen
Init ==
    /\ method \in Methods
    /\ type \in Types
    /\ \E p \in Problems : objCoeffs = p.objCoeffs /\ constraints = p.constraints
    /\ step = "INPUT"
    /\ numVars = Len(objCoeffs)
    /\ numConstraints = Len(constraints)
    /\ optType = type
    /\ pc = "start"
    /\ headers = <<>>
    /\ heap = <<>>
    /\ matrix = <<>>
    /\ basis = <<>>
    /\ steps = <<>>
    /\ phase = 0
    /\ iter = 0
    /\ engineResult = "NONE"
    /\ originalObjRow = -1
    /\ result = NoResult

\* lines 25-118 when an entry of constraints is null: the TypeError is caught
NormalizeThrow ==
    /\ pc = "start"
    /\ NormalizeThrows(constraints)
    /\ result' = CaughtResult
    /\ pc' = "done"
    /\ UNCHANGED <<app, args, headers, heap, matrix, basis, steps, phase, iter,
                   engineResult, originalObjRow>>

\* lines 25-123
Normalize ==
    /\ pc = "start"
    /\ ~NormalizeThrows(constraints)
    /\ headers' = BuildHeaders(Len(objCoeffs), constraints)
    /\ heap' = BuildMatrix(type, objCoeffs, constraints)
    /\ matrix' = [r \in 0..Len(constraints) |-> r]
    /\ basis' = BuildBasis(Len(objCoeffs), constraints)
    /\ steps' = <<>>
    /\ pc' = "branch"
    /\ UNCHANGED <<app, args, phase, iter, engineResult, originalObjRow, result>>

\* lines 127-172: save the objective row, install the phase-1 row, call the
\* engine with phase 1
PrepareTwoPhase ==
    /\ pc = "branch"
    /\ UsesTwoPhase(method, constraints)
    /\ LET saved == Len(constraints) + 1
           fresh == Len(constraints) + 2
       IN  /\ originalObjRow' = saved
           /\ heap' = [id \in 0..fresh |->
                         IF id = saved THEN heap[matrix[0]]
                         ELSE IF id = fresh THEN Phase1Row(Live, headers)
                         ELSE heap[id]]
           /\ matrix' = [matrix EXCEPT ![0] = fresh]
    /\ phase' = 1
    /\ iter' = 0
    /\ pc' = "loop"
    /\ UNCHANGED <<app, args, headers, basis, steps, engineResult, result>>

\* lines 209-245: penalise the artificials in row 0 in place, call the engine
PrepareBigM ==
    /\ pc = "branch"
    /\ ~UsesTwoPhase(method, constraints)
    /\ UsesBigM(method, constraints)
    /\ heap' = [heap EXCEPT ![matrix[0]] = BigMRow(Live, headers)]
    /\ phase' = 0
    /\ iter' = 0
    /\ pc' = "loop"
    /\ UNCHANGED <<app, args, headers, matrix, basis, steps, engineResult, originalObjRow, result>>

\* lines 257-265: the engine is called on the tableau as built
PrepareSimplex ==
    /\ pc = "branch"
    /\ ~UsesTwoPhase(method, constraints)
    /\ ~UsesBigM(method, constraints)
    /\ phase' = 0
    /\ iter' = 0
    /\ pc' = "loop"
    /\ UNCHANGED <<app, args, headers, heap, matrix, basis, steps, engineResult,
                   originalObjRow, result>>


\* ------------------------------------------------------------------------
\* One pass of the engine's while loop (lines 316-422)
\* ------------------------------------------------------------------------
\* lines 318-325: every row holds the row array itself (coefficients:
\* matrix[r]) and the number matrix[r][RHS_COL]
CurrentTableauRows ==
    [r \in DOMAIN matrix |->
       [basicVar |-> IF r = 0 THEN (IF phase = 1 THEN <<"W", 0>> ELSE <<"Z", 0>>)
                     ELSE headers[basis[r - 1]],
        coefficients |-> matrix[r],
        rhs |-> MatRhs(Live, r)]]

BasicVars == [k \in DOMAIN basis |-> headers[basis[k]]]

\* kind stands for the description: "optimal" (Solucion Optima encontrada),
\* "unbounded" (Solucion no acotada detectada) or "iteration" (Iteracion n)
\* enteringVar of an unbounded step is the name its description carries
\* (line 373); the step has no enteringVar field of its own
TraceStep(kind, ec, lr) ==
    [stepIndex |-> Len(steps) + 1,
     kind |-> kind,
     iteration |-> IF kind = "iteration" THEN iter + 1 ELSE 0,
     tableau |-> CurrentTableauRows,
     basicVars |-> BasicVars,
     pivotRow |-> IF kind = "iteration" THEN lr ELSE -1,
     pivotCol |-> IF kind = "iteration" THEN ec ELSE -1,
     enteringVar |-> IF kind = "optimal" THEN NoVar ELSE headers[ec],
     leavingVar |-> IF kind = "iteration" THEN headers[basis[lr - 1]] ELSE NoVar,
     phase |-> phase]

\* lines 340-351
IterOptimal ==
    /\ pc = "loop"
    /\ LoopContinues(iter)
    /\ EnteringCol(Live) = -1
    /\ steps' = Append(steps, TraceStep("optimal", -1, -1))
    /\ engineResult' = "OPTIMAL"
    /\ pc' = "returned"
    /\ UNCHANGED <<app, args, headers, heap, matrix, basis, phase, iter, originalObjRow, result>>

\* lines 370-381
IterUnbounded ==
    /\ pc = "loop"
    /\ LoopContinues(iter)
    /\ EnteringCol(Live) # -1
    /\ LeavingRow(Live, EnteringCol(Live)) = -1
    /\ steps' = Append(steps, TraceStep("unbounded", EnteringCol(Live), -1))
    /\ engineResult' = "UNBOUNDED"
    /\ pc' = "returned"
    /\ UNCHANGED <<app, args, headers, heap, matrix, basis, phase, iter, originalObjRow, result>>

\* a pivot pass that leaves the iteration counter as it was
IterPivotUncounted ==
    /\ pc = "loop"
    /\ LoopContinues(iter)
    /\ LET ec == EnteringCol(Live)
           lr == LeavingRow(Live, ec)
       IN  /\ ec # -1
           /\ lr # -1
           /\ steps' = Append(steps, TraceStep("iteration", ec, lr))
           /\ heap' = Stored(Pivot(Live, lr, ec))
           /\ basis' = [basis EXCEPT ![lr - 1] = ec]
    /\ UNCHANGED <<app, args, pc, headers, matrix, phase, iter, engineResult, originalObjRow, result>>

\* lines 383-421
IterPivot ==
    /\ pc = "loop"
    /\ LoopContinues(iter)
    /\ LET ec == EnteringCol(Live)
           lr == LeavingRow(Live, ec)
       IN  /\ ec # -1
           /\ lr # -1
           /\ steps' = Append(steps, TraceStep("iteration", ec, lr))
           /\ heap' = Stored(Pivot(Live, lr, ec))
           /\ basis' = [basis EXCEPT ![lr - 1] = ec]
    /\ iter' = iter + 1
    /\ UNCHANGED <<app, args, pc, headers, matrix, phase, engineResult, originalObjRow, result>>

\* lines 316, 423: the loop ends on the cap
IterCap ==
    /\ pc = "loop"
    /\ ~LoopContinues(iter)
    /\ engineResult' = "UNBOUNDED"
    /\ pc' = "returned"
    /\ UNCHANGED <<app, args, headers, heap, matrix, basis, steps, phase, iter,
                   originalObjRow, result>>

\* ------------------------------------------------------------------------
\* After the engine returns
\* ------------------------------------------------------------------------
\* lines 173-206
Phase1Return ==
    /\ pc = "returned"
    /\ UsesTwoPhase(method, constraints)
    /\ phase = 1
    /\ IF engineResult = "UNBOUNDED"
       THEN /\ result' = Failure("UNBOUNDED", steps)
            /\ pc' = "done"
            /\ UNCHANGED <<heap, matrix, phase, iter>>
       ELSE IF Phase1Infeasible(Live)
       THEN /\ result' = Failure("INFEASIBLE", steps)
            /\ pc' = "done"
            /\ UNCHANGED <<heap, matrix, phase, iter>>
       ELSE /\ matrix' = [matrix EXCEPT ![0] = originalObjRow]
            /\ heap' = [heap EXCEPT ![originalObjRow] =
                           ReZero(heap[originalObjRow], Live, basis, 0)]
            /\ phase' = 2
            /\ iter' = 0
            /\ pc' = "loop"
            /\ UNCHANGED result
    /\ UNCHANGED <<app, args, headers, basis, steps, engineResult, originalObjRow>>

\* line 207
Phase2Return ==
    /\ pc = "returned"
    /\ UsesTwoPhase(method, constraints)
    /\ phase = 2
    /\ IF engineResult # "OPTIMAL"
       THEN result' = Failure(engineResult, steps) /\ pc' = "done"
       ELSE UNCHANGED result /\ pc' = "extract"
    /\ UNCHANGED <<app, args, headers, heap, matrix, basis, steps, phase, iter,
                   engineResult, originalObjRow>>

\* lines 246-255
BigMReturn ==
    /\ pc = "returned"
    /\ ~UsesTwoPhase(method, constraints)
    /\ UsesBigM(method, constraints)
    /\ IF engineResult # "OPTIMAL"
       THEN result' = Failure(engineResult, steps) /\ pc' = "done"
       ELSE IF ArtInBasis(Live, basis, headers)
       THEN result' = Failure("INFEASIBLE", steps) /\ pc' = "done"
       ELSE UNCHANGED result /\ pc' = "extract"
    /\ UNCHANGED <<app, args, headers, heap, matrix, basis, steps, phase, iter,
                   engineResult, originalObjRow>>

\* line 266
SimplexReturn ==
    /\ pc = "returned"
    /\ ~UsesTwoPhase(method, constraints)
    /\ ~UsesBigM(method, constraints)
    /\ IF engineResult # "OPTIMAL"
       THEN result' = Failure(engineResult, steps) /\ pc' = "done"
       ELSE UNCHANGED result /\ pc' = "extract"
    /\ UNCHANGED <<app, args, headers, heap, matrix, basis, steps, phase, iter,
                   engineResult, originalObjRow>>

\* lines 269-293
Extract ==
    /\ pc = "extract"
    /\ result' = Success(Live, basis, headers, type, steps)
    /\ pc' = "done"
    /\ UNCHANGED <<app, args, headers, heap, matrix, basis, steps, phase, iter,
                   engineResult, originalObjRow>>

Next ==
    \/ NormalizeThrow
    \/ Normalize
    \/ PrepareTwoPhase
    \/ PrepareBigM
    \/ PrepareSimplex
    \/ IterOptimal
    \/ IterUnbounded
    \/ IterPivot
    \/ IterCap
    \/ Phase1Return
    \/ Phase2Return
    \/ BigMReturn
    \/ SimplexReturn
    \/ Extract

Spec == Init /\ [][Next]_vars

\* The state machine and the function compute the same result.
ResultAgrees ==
    pc = "done" =>
        LET f == solveLinearProgram(method, type, objCoeffs, constraints)
        IN  /\ result.status = f.status
            /\ result.zValue = f.zValue
            /\ result.finalValues = f.finalValues


\* ------------------------------------------------------------------------
\* The App (src/App.tsx) with its ConfigPanel and DataInput screens
\* ------------------------------------------------------------------------
MaxCountText == 2
MaxNumberText == 1
MaxCell == 1

\* e.target.value of a text typed into a number field: characters in order
Digits == {"0", "1"}
TextChars == Digits \cup {"-", "."}
Texts(len) == UNION {[1..n -> TextChars] : n \in 0..len}
\* the texts typed into the count fields of ConfigPanel and into the number
\* fields of DataInput
CountTexts == Texts(MaxCountText)
NumberTexts == Texts(MaxNumberText)

DigitValue(ch) == IF ch = "1" THEN 1 ELSE 0

\* how many digits text has from position i on
RECURSIVE DigitRun(_, _)
DigitRun(text, i) ==
    IF i > Len(text) \/ text[i] \notin Digits THEN 0 ELSE 1 + DigitRun(text, i + 1)

\* the decimal value of the n digits of text from position i on
RECURSIVE DigitsValue(_, _, _)
DigitsValue(text, i, n) ==
    IF n = 0 THEN 0
    ELSE DigitsValue(text, i, n - 1) * 10 + DigitValue(text[i + n - 1])

RECURSIVE Pow10(_)
Pow10(n) == IF n = 0 THEN 1 ELSE 10 * Pow10(n - 1)

\* a parsed number is <<v>>; NaN is the empty tuple
NaN == <<>>
SignOf(text) == IF Len(text) > 0 /\ text[1] = "-" THEN -1 ELSE 1
NumberStart(text) == IF Len(text) > 0 /\ text[1] = "-" THEN 2 ELSE 1

\* JavaScript parseInt: optional sign, then the longest run of digits
parseInt(text) ==
    LET n == DigitRun(text, NumberStart(text))
    IN  IF n = 0 THEN NaN
        ELSE <<SignOf(text) * DigitsValue(text, NumberStart(text), n)>>

\* JavaScript parseFloat: optional sign, digits, optional point and digits
parseFloat(text) ==
    LET from == NumberStart(text)
        nInt == DigitRun(text, from)
        dot == from + nInt <= Len(text) /\ text[from + nInt] = "."
        nFrac == IF dot THEN DigitRun(text, from + nInt + 1) ELSE 0
    IN  IF nInt + nFrac = 0 THEN NaN
        ELSE <<Norm(SignOf(text) * (DigitsValue(text, from, nInt) * Pow10(nFrac)
                                      + DigitsValue(text, from + nInt + 1, nFrac)),
                    Pow10(nFrac))>>

\* Math.max(1, parseInt(e.target.value) || 1)
CountFrom(text) ==
    LET parsed == parseInt(text)
        orOne == IF parsed = NaN \/ parsed[1] = 0 THEN 1 ELSE parsed[1]
    IN  IF orOne < 1 THEN 1 ELSE orOne

\* parseFloat(val) || 0
NumberFrom(text) ==
    LET parsed == parseFloat(text)
    IN  IF parsed = NaN \/ parsed[1] = Zero THEN Zero ELSE parsed[1]

\* a hole of an array
Undefined == <<0, 0>>

\* a copy of array arr with arr[idx] = v (idx 0-based): an index past the end
\* lengthens the array and leaves holes
ArraySet(arr, idx, v) ==
    [k \in 1..(IF idx + 1 > Len(arr) THEN idx + 1 ELSE Len(arr)) |->
       IF k = idx + 1 THEN v ELSE IF k <= Len(arr) THEN arr[k] ELSE Undefined]

\* Array(n).fill(0)
Zeros(n) == [k \in 1..n |-> Zero]

\* the constraint handleSetupNext creates (its id plays no part in a solve)
FreshConstraint(n) == [coefficients |-> Zeros(n), relation |-> "<=", rhs |-> Zero]

\* the App before any action; no call of the solver is in progress
AppInit ==
    /\ step = "SETUP"
    /\ numVars = INITIAL_VARS
    /\ numConstraints = INITIAL_CONSTRAINTS
    /\ optType = "MAX"
    /\ method = "SIMPLEX"
    /\ objCoeffs = <<>>
    /\ constraints = <<>>
    /\ result = NoResult
    /\ type = "MAX"
    /\ pc = "idle"
    /\ headers = <<>>
    /\ heap = <<>>
    /\ matrix = <<>>
    /\ basis = <<>>
    /\ steps = <<>>
    /\ phase = 0
    /\ iter = 0
    /\ engineResult = "NONE"
    /\ originalObjRow = -1

\* ConfigPanel, the numVars field
SetNumVars ==
    /\ step = "SETUP"
    /\ \E text \in CountTexts : numVars' = CountFrom(text)
    /\ UNCHANGED <<step, numConstraints, optType, args, call, result>>

\* ConfigPanel, the numConstraints field
SetNumConstraints ==
    /\ step = "SETUP"
    /\ \E text \in CountTexts : numConstraints' = CountFrom(text)
    /\ UNCHANGED <<step, numVars, optType, args, call, result>>

\* ConfigPanel, the Maximizar / Minimizar buttons
SetOptType ==
    /\ step = "SETUP"
    /\ \E t \in Types : optType' = t
    /\ UNCHANGED <<step, numVars, numConstraints, args, call, result>>

\* ConfigPanel, the method selector
SetMethod ==
    /\ step = "SETUP"
    /\ \E m \in Methods : method' = m
    /\ UNCHANGED <<app, type, objCoeffs, constraints, call, result>>

\* Continuar that keeps the data entered before
handleSetupNextKeepingData ==
    /\ step = "SETUP"
    /\ objCoeffs' = IF objCoeffs = <<>> THEN Zeros(numVars) ELSE objCoeffs
    /\ constraints' = IF constraints = <<>>
                      THEN [i \in 1..numConstraints |-> FreshConstraint(numVars)]
                      ELSE constraints
    /\ step' = "INPUT"
    /\ UNCHANGED <<numVars, numConstraints, optType, method, type, call, result>>

\* Continuar
handleSetupNext ==
    /\ step = "SETUP"
    /\ objCoeffs' = Zeros(numVars)
    /\ constraints' = [i \in 1..numConstraints |-> FreshConstraint(numVars)]
    /\ step' = "INPUT"
    /\ UNCHANGED <<numVars, numConstraints, optType, method, type, call, result>>

\* the cells of the INPUT screen that are edited: the first MaxCell of a row
\* of numVars inputs
Cells(n) == {i \in 0..(n - 1) : i < MaxCell}

\* DataInput, an objective coefficient field
handleObjChange ==
    /\ step = "INPUT"
    /\ \E idx \in Cells(numVars), text \in NumberTexts :
          objCoeffs' = ArraySet(objCoeffs, idx, NumberFrom(text))
    /\ UNCHANGED <<app, method, type, constraints, call, result>>

\* DataInput, a field of constraint rowIdx: a coefficient, the right-hand
\* side or the relation
handleConstraintChange ==
    /\ step = "INPUT"
    /\ \E rowIdx \in Cells(Len(constraints)) :
          LET old == constraints[rowIdx + 1]
          IN  \E new \in
                 {[old EXCEPT !.coefficients = ArraySet(old.coefficients, colIdx, NumberFrom(text))]
                     : <<colIdx, text>> \in Cells(numVars) \X NumberTexts}
                 \cup {[old EXCEPT !.rhs = NumberFrom(text)] : text \in NumberTexts}
                 \cup {[old EXCEPT !.relation = rel] : rel \in Relations} :
                 constraints' = ArraySet(constraints, rowIdx, new)
    /\ UNCHANGED <<app, method, type, objCoeffs, call, result>>

\* Volver
onBack ==
    /\ step = "INPUT"
    /\ step' = "SETUP"
    /\ UNCHANGED <<numVars, numConstraints, optType, args, call, result>>

\* Resolver that shows the result screen without storing a result
handleSolveWithoutResult ==
    /\ step = "INPUT"
    /\ step' = "RESULT"
    /\ UNCHANGED <<numVars, numConstraints, optType, args, call, result>>

\* Resolver: the result stored is the status, zValue and finalValues of the
\* call
handleSolve ==
    /\ step = "INPUT"
    /\ result' = solveLinearProgram(method, optType, objCoeffs, constraints)
    /\ step' = "RESULT"
    /\ UNCHANGED <<numVars, numConstraints, optType, args, call>>

\* Resolver otro problema, shown when step is RESULT and result is not null
handleReset ==
    /\ step = "RESULT"
    /\ result # NoResult
    /\ step' = "SETUP"
    /\ result' = NoResult
    /\ UNCHANGED <<numVars, numConstraints, optType, args, call>>

AppNext ==
    \/ SetNumVars
    \/ SetNumConstraints
    \/ SetOptType
    \/ SetMethod
    \/ handleSetupNext
    \/ handleObjChange
    \/ handleConstraintChange
    \/ onBack
    \/ handleSolve
    \/ handleReset

AppSpec == AppInit /\ [][AppNext]_vars

\* ------------------------------------------------------------------------
\* IEEE 754 double arithmetic (the JavaScript number operators as the
\* build computes them: round to nearest, ties to even)
\* ------------------------------------------------------------------------
\* Spec and AppSpec compute in exact rationals, which is what the doubles
\* give as long as no operation rounds; DoubleSpec below runs the pivot
\* engine on doubles themselves, for the properties that rounding or the
\* 1e-9 thresholds decide.
\* Natural numbers of any size: little-endian digit sequences to base 2^15
\* with no leading zero digit, so that <<>> is zero.
Base == 32768
DigitBits == 15

Dig(a, i) == IF i <= Len(a) THEN a[i] ELSE 0

RECURSIVE BTrim(_)
BTrim(a) ==
    IF a = <<>> THEN a
    ELSE IF a[Len(a)] # 0 THEN a
    ELSE BTrim(SubSeq(a, 1, Len(a) - 1))

RECURSIVE BAddFrom(_, _, _, _)
BAddFrom(a, b, i, carry) ==
    IF i > Len(a) /\ i > Len(b) THEN (IF carry = 0 THEN <<>> ELSE <<carry>>)
    ELSE IF Dig(a, i) + Dig(b, i) + carry >= Base
         THEN <<Dig(a, i) + Dig(b, i) + carry - Base>> \o BAddFrom(a, b, i + 1, 1)
         ELSE <<Dig(a, i) + Dig(b, i) + carry>> \o BAddFrom(a, b, i + 1, 0)

BAdd(a, b) == BAddFrom(a, b, 1, 0)

\* a - b for a >= b
RECURSIVE BSubFrom(_, _, _, _)
BSubFrom(a, b, i, borrow) ==
    IF i > Len(a) THEN <<>>
    ELSE IF a[i] - Dig(b, i) - borrow < 0
         THEN <<a[i] - Dig(b, i) - borrow + Base>> \o BSubFrom(a, b, i + 1, 1)
         ELSE <<a[i] - Dig(b, i) - borrow>> \o BSubFrom(a, b, i + 1, 0)

BSub(a, b) == BTrim(BSubFrom(a, b, 1, 0))

RECURSIVE BCmpFrom(_, _, _)
BCmpFrom(a, b, i) ==
    IF i = 0 THEN 0
    ELSE IF a[i] < b[i] THEN -1
    ELSE IF a[i] > b[i] THEN 1
    ELSE BCmpFrom(a, b, i - 1)

\* -1, 0 or 1 as a is below, equal to or above b
BCmp(a, b) ==
    IF Len(a) < Len(b) THEN -1
    ELSE IF Len(a) > Len(b) THEN 1
    ELSE BCmpFrom(a, b, Len(a))

RECURSIVE BMulDigitFrom(_, _, _, _)
BMulDigitFrom(a, d, i, carry) ==
    IF i > Len(a) THEN (IF carry = 0 THEN <<>> ELSE <<carry>>)
    ELSE Bind(a[i] * d + carry, LAMBDA s :
              <<s % Base>> \o BMulDigitFrom(a, d, i + 1, s \div Base))

BMulDigit(a, d) == IF d = 0 THEN <<>> ELSE BMulDigitFrom(a, d, 1, 0)

BShiftDigits(a, k) == IF a = <<>> THEN a ELSE [i \in 1..k |-> 0] \o a

RECURSIVE BMulFrom(_, _, _)
BMulFrom(a, b, j) ==
    IF j > Len(b) THEN <<>>
    ELSE Bind(BMulFrom(a, b, j + 1), LAMBDA rest :
              BAdd(BShiftDigits(BMulDigit(a, b[j]), j - 1), rest))

BMul(a, b) == BMulFrom(a, b, 1)

\* a * 2^k
BShl(a, k) == BShiftDigits(BMulDigit(a, 2 ^ (k % DigitBits)), k \div DigitBits)

\* floor(a / 2^k)
BShr(a, k) ==
    LET drop == k \div DigitBits
        s == k % DigitBits
        n == Len(a) - drop
    IN  IF n <= 0 THEN <<>>
        ELSE BTrim([j \in 1..n |->
                      (a[drop + j] \div 2 ^ s)
                      + (Dig(a, drop + j + 1) % 2 ^ s) * 2 ^ (DigitBits - s)])

BBitLen(a) ==
    IF a = <<>> THEN 0
    ELSE DigitBits * (Len(a) - 1)
         + (CHOOSE n \in 1..DigitBits : 2 ^ (n - 1) <= a[Len(a)] /\ a[Len(a)] < 2 ^ n)

\* bit i of a, bit 0 the lowest
BBit(a, i) == (Dig(a, i \div DigitBits + 1) \div 2 ^ (i % DigitBits)) % 2

BIsOdd(a) == a # <<>> /\ a[1] % 2 = 1

\* the largest d below Base with b * d <= r, for r < b * Base: the bits of d
\* from bit n down, d holding the bits already chosen
RECURSIVE QuotientDigit(_, _, _, _)
QuotientDigit(r, b, n, d) ==
    IF n < 0 THEN d
    ELSE IF BCmp(BMulDigit(b, d + 2 ^ n), r) <= 0
         THEN QuotientDigit(r, b, n - 1, d + 2 ^ n)
         ELSE QuotientDigit(r, b, n - 1, d)

\* long division of a by b # 0 from digit i of a down, r being what is
\* left of the digits above i: <<quotient, remainder>>
RECURSIVE BDivFrom(_, _, _, _, _)
BDivFrom(a, b, i, q, r) ==
    IF i = 0 THEN <<BTrim(q), r>>
    ELSE Bind(BTrim(<<a[i]>> \o r), LAMBDA r2 :
         Bind(QuotientDigit(r2, b, DigitBits - 1, 0), LAMBDA d :
              BDivFrom(a, b, i - 1, <<d>> \o q, BSub(r2, BMulDigit(b, d)))))

\* the top Len(b) - 1 digits of a are below b and give no quotient digit
BDivMod(a, b) ==
    IF Len(a) < Len(b) THEN <<<<>>, a>>
    ELSE BDivFrom(a, b, Len(a) - Len(b) + 1, <<>>,
                  SubSeq(a, Len(a) - Len(b) + 2, Len(a)))

\* A double is sg * m * 2^e with sg the sign, m a natural number of
\* exactly MantissaBits bits and e an integer; zero has m = <<>>.
\* (Subnormals, infinities and NaN are left out: no value of the problems
\* below comes near the exponent range.)
MantissaBits == 53

DZero == [sg |-> 1, m |-> <<>>, e |-> 0]

\* sg * (M + f) * 2^e rounded to a double, where 0 < f < 1 if sticky and
\* f = 0 otherwise: to the nearest double, to the even mantissa on a tie
RoundToDouble(sg, M, e, sticky) ==
    IF M = <<>> THEN DZero
    ELSE Bind(BBitLen(M), LAMBDA len :
         IF len <= MantissaBits
         THEN [sg |-> sg, m |-> BShl(M, MantissaBits - len), e |-> e - (MantissaBits - len)]
         ELSE Bind(BShr(M, len - MantissaBits), LAMBDA q :
              Bind(BCmp(BShl(BSub(M, BShl(q, len - MantissaBits)), 1),
                        BShl(<<1>>, len - MantissaBits)), LAMBDA half :
              Bind(IF half > 0 \/ (half = 0 /\ (sticky \/ BIsOdd(q)))
                   THEN BAdd(q, <<1>>) ELSE q, LAMBDA up :
                   IF BBitLen(up) > MantissaBits
                   THEN [sg |-> sg, m |-> BShr(up, 1), e |-> e + (len - MantissaBits) + 1]
                   ELSE [sg |-> sg, m |-> up, e |-> e + (len - MantissaBits)]))))

RECURSIVE BNat(_)
BNat(n) == IF n = 0 THEN <<>> ELSE <<n % Base>> \o BNat(n \div Base)

\* the integer i as a double
DInt(i) ==
    IF i = 0 THEN DZero
    ELSE RoundToDouble(IF i < 0 THEN -1 ELSE 1, BNat(IAbs(i)), 0, FALSE)

DNeg(x) == [x EXCEPT !.sg = -x.sg]
DAbs(x) == [x EXCEPT !.sg = 1]

\* the exact sum of x and y as <<sign, natural number, exponent>>
DExactSum(x, y) ==
    IF x.m = <<>> THEN <<y.sg, y.m, y.e>>
    ELSE IF y.m = <<>> THEN <<x.sg, x.m, x.e>>
    ELSE Bind(IF x.e < y.e THEN x.e ELSE y.e, LAMBDA e :
         Bind(<<BShl(x.m, x.e - e), BShl(y.m, y.e - e)>>, LAMBDA a :
              IF x.sg = y.sg THEN <<x.sg, BAdd(a[1], a[2]), e>>
              ELSE Bind(BCmp(a[1], a[2]), LAMBDA c :
                   IF c = 0 THEN <<1, <<>>, 0>>
                   ELSE IF c > 0 THEN <<x.sg, BSub(a[1], a[2]), e>>
                   ELSE <<y.sg, BSub(a[2], a[1]), e>>)))

\* x + y
DAdd(x, y) ==
    Bind(DExactSum(x, y), LAMBDA s : RoundToDouble(s[1], s[2], s[3], FALSE))

\* x - y
DSub(x, y) == DAdd(x, DNeg(y))

\* x * y
DMul(x, y) ==
    IF x.m = <<>> \/ y.m = <<>> THEN DZero
    ELSE RoundToDouble(x.sg * y.sg, BMul(x.m, y.m), x.e + y.e, FALSE)

\* x / y for y # 0: the quotient of the mantissas is taken to 3 bits more
\* than a mantissa holds, the rest of the division is the sticky bit
DDiv(x, y) ==
    IF x.m = <<>> THEN DZero
    ELSE Bind(BDivMod(BShl(x.m, MantissaBits + 3), y.m), LAMBDA qr :
              RoundToDouble(x.sg * y.sg, qr[1], x.e - (MantissaBits + 3) - y.e,
                            qr[2] # <<>>))

\* x < y
DLt(x, y) ==
    Bind(DExactSum(x, DNeg(y)), LAMBDA s : s[2] # <<>> /\ s[1] = -1)

\* the literal 1e-9: the double nearest to 1 / 10^9
Tol9 == DDiv(DInt(1), DInt(TolInv9))

\* the number a typed value denotes: the double nearest to the rational
DoubleOf(x) == IF x[2] = 1 THEN DInt(x[1]) ELSE DDiv(DInt(x[1]), DInt(x[2]))

\* ------------------------------------------------------------------------
\* The pivot engine on doubles (runSimplexIterations, lines 302-424)
\* ------------------------------------------------------------------------
\* lines 329-337 over the columns lo..hi-1, one half after the other; ec is
\* enteringCol so far (minVal is -1e-9 while ec = -1 and row[ec] afterwards)
RECURSIVE DoubleEnteringScan(_, _, _, _)
DoubleEnteringScan(row, lo, hi, ec) ==
    IF hi <= lo THEN ec
    ELSE IF hi = lo + 1
         THEN (IF DLt(row[lo], IF ec = -1 THEN DNeg(Tol9) ELSE row[ec]) THEN lo ELSE ec)
    ELSE Bind(DoubleEnteringScan(row, lo, (lo + hi) \div 2, ec), LAMBDA first :
              DoubleEnteringScan(row, (lo + hi) \div 2, hi, first))

DoubleEnteringCol(M) == DoubleEnteringScan(M[0], 1, Cardinality(DOMAIN M[0]) - 1, -1)

DoubleRatio(M, r, ec) == DDiv(MatRhs(M, r), M[r][ec])

\* lines 354-366 over the rows lo..hi-1, one half after the other; best is
\* <<leavingRow, minRatio>> so far (minRatio is Infinity while leavingRow
\* is -1)
RECURSIVE DoubleLeavingScan(_, _, _, _, _)
DoubleLeavingScan(M, ec, lo, hi, best) ==
    IF hi <= lo THEN best
    ELSE IF hi = lo + 1
         THEN (IF ~DLt(Tol9, M[lo][ec]) THEN best
               ELSE Bind(DoubleRatio(M, lo, ec), LAMBDA ratio :
                         IF best[1] = -1 \/ DLt(ratio, best[2]) THEN <<lo, ratio>>
                         ELSE best))
    ELSE Bind(DoubleLeavingScan(M, ec, lo, (lo + hi) \div 2, best), LAMBDA first :
              DoubleLeavingScan(M, ec, (lo + hi) \div 2, hi, first))

DoubleLeavingRow(M, ec) ==
    DoubleLeavingScan(M, ec, 1, Cardinality(DOMAIN M), <<-1, DZero>>)[1]

\* lines 401-404
DoubleNormalizedRow(M, lr, ec) == [c \in DOMAIN M[lr] |-> DDiv(M[lr][c], M[lr][ec])]

\* line 411: row[c] -= factor * pivotRow[c]
DoubleRowMinusScaled(row, factor, prow) ==
    [c \in DOMAIN row |-> Bind(DMul(factor, prow[c]), LAMBDA scaled : DSub(row[c], scaled))]

\* lines 407-416
DoublePivot(M, lr, ec) ==
    Bind(DoubleNormalizedRow(M, lr, ec), LAMBDA prow :
        [r \in DOMAIN M |->
           IF r = lr THEN prow
           ELSE IF DLt(Tol9, DAbs(M[r][ec]))
                THEN DoubleRowMinusScaled(M[r], M[r][ec], prow)
           ELSE M[r]])

\* The problems run on doubles have '<=' constraints only and non-negative
\* right-hand sides, so that the engine is called on the tableau as built:
\* the bounded problems in one variable and the named ones.
\* maximise x1 + x2 s.t. -x1 <= 0, 3x1 + x2 <= 5
ThirdsProblem ==
    [objCoeffs |-> <<Rat(1), Rat(1)>>,
     constraints |-> <<Con(<<-1, 0>>, "<=", 0), Con(<<3, 1>>, "<=", 5)>>]

\* maximise 2x1 + x2 s.t. x1 <= 1, -1e-9 x1 + 2e-9 x2 <= 1, x2 <= 5e8: the
\* coefficient -1e-9 is not above the 1e-9 of line 410 in size
TinyFactorProblem ==
    [objCoeffs |-> <<Rat(2), Rat(1)>>,
     constraints |->
        <<Con(<<1, 0>>, "<=", 1),
          [coefficients |-> <<<<-1, TolInv9>>, <<2, TolInv9>>>>,
           relation |-> "<=", rhs |-> One],
          Con(<<0, 1>>, "<=", 500000000)>>]

DoubleProblems ==
    {p \in BoundedProblems :
        /\ Len(p.objCoeffs) = 1
        /\ \A i \in 1..Len(p.constraints) : p.constraints[i].relation = "<="}
    \cup {WyndorProblem, BealeProblem, FullLengthProblem, ThirdsProblem,
          TinyFactorProblem}

\* solveLinearProgram on doubles up to its call of the engine (lines 25-123
\* and 257-265): the tableau as built, every number the double of the one
\* typed
DoubleInit ==
    /\ method = "SIMPLEX"
    /\ type \in Types
    /\ \E p \in DoubleProblems : objCoeffs = p.objCoeffs /\ constraints = p.constraints
    /\ step = "INPUT"
    /\ numVars = Len(objCoeffs)
    /\ numConstraints = Len(constraints)
    /\ optType = type
    /\ pc = "loop"
    /\ headers = BuildHeaders(Len(objCoeffs), constraints)
    /\ heap = Bind(BuildMatrix(type, objCoeffs, constraints), LAMBDA M :
                    [r \in DOMAIN M |-> [c \in DOMAIN M[r] |-> DoubleOf(M[r][c])]])
    /\ matrix = [r \in 0..Len(constraints) |-> r]
    /\ basis = BuildBasis(Len(objCoeffs), constraints)
    /\ steps = <<>>
    /\ phase = 0
    /\ iter = 0
    /\ engineResult = "NONE"
    /\ originalObjRow = -1
    /\ result = NoResult

\* lines 340-351
DoubleIterOptimal ==
    /\ pc = "loop"
    /\ LoopContinues(iter)
    /\ DoubleEnteringCol(Live) = -1
    /\ steps' = Append(steps, TraceStep("optimal", -1, -1))
    /\ engineResult' = "OPTIMAL"
    /\ pc' = "returned"
    /\ UNCHANGED <<app, args, headers, heap, matrix, basis, phase, iter, originalObjRow, result>>

\* lines 370-381
DoubleIterUnbounded ==
    /\ pc = "loop"
    /\ LoopContinues(iter)
    /\ \E ec \in {DoubleEnteringCol(Live)} :
          /\ ec # -1
          /\ DoubleLeavingRow(Live, ec) = -1
          /\ steps' = Append(steps, TraceStep("unbounded", ec, -1))
    /\ engineResult' = "UNBOUNDED"
    /\ pc' = "returned"
    /\ UNCHANGED <<app, args, headers, heap, matrix, basis, phase, iter, originalObjRow, result>>

\* lines 383-421
DoubleIterPivot ==
    /\ pc = "loop"
    /\ LoopContinues(iter)
    /\ \E ec \in {DoubleEnteringCol(Live)} :
          /\ ec # -1
          /\ \E lr \in {DoubleLeavingRow(Live, ec)} :
                /\ lr # -1
                /\ steps' = Append(steps, TraceStep("iteration", ec, lr))
                /\ heap' = Stored(DoublePivot(Live, lr, ec))
                /\ basis' = [basis EXCEPT ![lr - 1] = ec]
    /\ iter' = iter + 1
    /\ UNCHANGED <<app, args, pc, headers, matrix, phase, engineResult, originalObjRow, result>>

\* lines 316, 423
DoubleIterCap ==
    /\ pc = "loop"
    /\ ~LoopContinues(iter)
    /\ engineResult' = "UNBOUNDED"
    /\ pc' = "returned"
    /\ UNCHANGED <<app, args, headers, heap, matrix, basis, steps, phase, iter,
                   originalObjRow, result>>

DoubleNext ==
    \/ DoubleIterOptimal
    \/ DoubleIterUnbounded
    \/ DoubleIterPivot
    \/ DoubleIterCap

\* one run of the engine, in the arithmetic of the build
DoubleSpec == DoubleInit /\ [][DoubleNext]_vars

\* ------------------------------------------------------------------------
\* What a linear program means (the yardstick of the correctness claims):
\* exact Fourier-Motzkin elimination over systems of inequalities a.x <= b
\* ------------------------------------------------------------------------
NegVec(a) == [j \in DOMAIN a |-> RNeg(a[j])]
Dot(a, x) ==
    LET RECURSIVE Sum(_)
        Sum(j) == IF j = 0 THEN Zero ELSE RAdd(RMul(a[j], x[j]), Sum(j - 1))
    IN  Sum(Len(a))

LeForm(con) ==
    LET le == [a |-> con.coefficients, b |-> con.rhs]
        ge == [a |-> NegVec(con.coefficients), b |-> RNeg(con.rhs)]
    IN  IF con.relation = "<=" THEN {le}
        ELSE IF con.relation = ">=" THEN {ge}
        ELSE {le, ge}

NonNegativity(n) ==
    {[a |-> [j \in 1..n |-> IF j = i THEN Rat(-1) ELSE Zero], b |-> Zero] : i \in 1..n}

\* x >= 0 and every constraint, as inequalities a.x <= b
LeSystem(cons, n) == NonNegativity(n) \cup UNION {LeForm(cons[i]) : i \in 1..Len(cons)}

CombineAt(p, q, k) ==
    [a |-> [j \in DOMAIN p.a |->
              RAdd(RDiv(p.a[j], p.a[k]), RDiv(q.a[j], RNeg(q.a[k])))],
     b |-> RAdd(RDiv(p.b, p.a[k]), RDiv(q.b, RNeg(q.a[k])))]

\* the projection of S along variable k
EliminateVar(S, k) ==
    {z \in S : z.a[k][1] = 0}
      \cup {CombineAt(p, q, k) : p \in {u \in S : u.a[k][1] > 0},
                                 q \in {v \in S : v.a[k][1] < 0}}

\* variables k, k-1, ..., low eliminated
RECURSIVE Project(_, _, _)
Project(S, k, low) ==
    IF k < low THEN S
    ELSE Bind(EliminateVar(S, k), LAMBDA T : Project(T, k - 1, low))

\* S (over n variables) has a solution
Consistent(S, n) == \A q \in Project(S, n, 1) : RLe(Zero, q.b)

HasFeasiblePoint(cons, n) == Consistent(LeSystem(cons, n), n)

\* the direction of improvement: c for MAX, -c for MIN
Gradient(dir, obj) == IF dir = "MAX" THEN obj ELSE NegVec(obj)

\* feasible, and some direction d >= 0 keeps every constraint and improves
\* the objective
ImprovesWithoutLimit(dir, obj, cons) ==
    /\ HasFeasiblePoint(cons, Len(obj))
    /\ Consistent({[a |-> q.a, b |-> Zero] : q \in LeSystem(cons, Len(obj))}
                    \cup {[a |-> NegVec(Gradient(dir, obj)), b |-> Rat(-1)]}, Len(obj))

\* the largest t with t <= g.x for a feasible x (g the gradient): variable 1
\* is t, variable j+1 is x_j
BestGradientValue(dir, obj, cons) ==
    LET n == Len(obj)
        g == Gradient(dir, obj)
        lift(q) == [a |-> [j \in 1..(n + 1) |-> IF j = 1 THEN Zero ELSE q.a[j - 1]], b |-> q.b]
        S == {lift(q) : q \in LeSystem(cons, n)}
               \cup {[a |-> [j \in 1..(n + 1) |-> IF j = 1 THEN One ELSE RNeg(g[j - 1])],
                      b |-> Zero]}
        ups == {RDiv(q.b, q.a[1]) : q \in {r \in Project(S, n + 1, 2) : r.a[1][1] > 0}}
    IN  CHOOSE u \in ups : \A v \in ups : RLe(u, v)

\* the true optimum of the objective (maximum for MAX, minimum for MIN)
TrueOptimum(dir, obj, cons) ==
    IF dir = "MAX" THEN BestGradientValue(dir, obj, cons)
    ELSE RNeg(BestGradientValue(dir, obj, cons))

\* x (a sequence, one value per decision variable) is a point of the region
Satisfies(x, cons) ==
    /\ \A j \in 1..Len(x) : RLe(Zero, x[j])
    /\ \A i \in 1..Len(cons) :
          LET lhs == Dot(cons[i].coefficients, x)
          IN  IF cons[i].relation = "<=" THEN RLe(lhs, cons[i].rhs)
              ELSE IF cons[i].relation = ">=" THEN RLe(cons[i].rhs, lhs)
              ELSE lhs = cons[i].rhs

WellFormed == ~NormalizeThrows(constraints)
HasRelation(rels) == \E i \in 1..Len(constraints) : constraints[i].relation \in rels
Done == pc = "done"


\* ------------------------------------------------------------------------
\* Claims
\* ------------------------------------------------------------------------
\* what a recorded step shows of row r: the array its coefficients field
\* refers to, as it is now
ShownRows(st) == [r \in DOMAIN st.tableau |-> heap[st.tableau[r].coefficients]]

\* C1: every step already in the trace keeps the coefficient rows it was
\* created with: no later pivot and no phase-1 to phase-2 replacement of the
\* objective row changes what a recorded step shows.
C1_RecordedRowsNeverChange ==
    [][\A i \in 1..Len(steps) : ShownRows(steps[i])' = ShownRows(steps[i])]_vars

\* C2: on a problem with an '=' or '>=' constraint, BIG_M and TWO_PHASE
\* return the same status and, when OPTIMAL, objective values within 1e-6.
C2_BigMAgreesWithTwoPhase ==
    (Done /\ WellFormed /\ method = "BIG_M" /\ HasRelation({"=", ">="})) =>
        LET tp == solveLinearProgram("TWO_PHASE", type, objCoeffs, constraints)
        IN  /\ result.status = tp.status
            /\ result.status = "OPTIMAL" =>
                  ~GtTol(RAbs(RSub(result.zValue, tp.zValue)), 1000000)

\* C3: a problem with no non-negative solution is reported INFEASIBLE by
\* BIG_M and by TWO_PHASE, whatever the direction and the objective.
C3_InfeasibleIsReported ==
    (Done /\ WellFormed /\ method \in {"BIG_M", "TWO_PHASE"}
          /\ ~HasFeasiblePoint(constraints, Len(objCoeffs))) =>
        result.status = "INFEASIBLE"

\* the engine's unbounded test on the tableau it returned with: an entering
\* column is selected and no constraint row has a coefficient > 1e-9 in it
NoPositivePivot ==
    /\ EnteringCol(Live) # -1
    /\ \A r \in DOMAIN Live \ {0} : ~GtTol(Live[r][EnteringCol(Live)], TolInv9)

\* C4: a problem whose objective improves without limit is reported
\* UNBOUNDED; the engine returns UNBOUNDED exactly when an entering column is
\* selected and no constraint row has a coefficient > 1e-9 in it, and the
\* step then appended names that entering variable.
C4_UnboundedIsReported ==
    /\ (Done /\ WellFormed /\ ImprovesWithoutLimit(type, objCoeffs, constraints)) =>
          result.status = "UNBOUNDED"
    /\ pc = "returned" =>
          /\ engineResult = "UNBOUNDED" <=> NoPositivePivot
          /\ engineResult = "UNBOUNDED" =>
                /\ steps[Len(steps)].kind = "unbounded"
                /\ steps[Len(steps)].enteringVar = headers[EnteringCol(Live)]

OnlyLeNonNegative ==
    \A i \in 1..Len(constraints) :
        constraints[i].relation = "<=" /\ RLe(Zero, constraints[i].rhs)

\* the decision-variable values of the result, in order
DecisionValues == [j \in 1..Len(objCoeffs) |-> result.finalValues[<<"x", j>>]]

\* C5: SIMPLEX on a feasible, bounded maximisation with only '<='
\* constraints and non-negative right-hand sides returns OPTIMAL with the
\* true maximum and decision values attaining it; on maximise 3x1+5x2 s.t.
\* x1<=4, 2x2<=12, 3x1+2x2<=18 it returns x1=2, x2=6, Z=36.
C5_SimplexFindsTheMaximum ==
    (Done /\ WellFormed /\ method = "SIMPLEX" /\ type = "MAX" /\ OnlyLeNonNegative
          /\ ~ImprovesWithoutLimit(type, objCoeffs, constraints)) =>
        /\ result.status = "OPTIMAL"
        /\ result.zValue = TrueOptimum(type, objCoeffs, constraints)
        /\ Satisfies(DecisionValues, constraints)
        /\ Dot(objCoeffs, DecisionValues) = result.zValue
        /\ (objCoeffs = WyndorProblem.objCoeffs /\ constraints = WyndorProblem.constraints) =>
              /\ DecisionValues = <<Rat(2), Rat(6)>>
              /\ result.zValue = Rat(36)


\* C6: MIN over c and MAX over -c on the same constraints and method return
\* the same status and, when OPTIMAL, Z_min = -Z_max.
C6_MinIsNegatedMax ==
    (Done /\ WellFormed) =>
        LET other == solveLinearProgram(method, IF type = "MAX" THEN "MIN" ELSE "MAX",
                                        NegVec(objCoeffs), constraints)
        IN  /\ result.status = other.status
            /\ result.status = "OPTIMAL" => other.zValue = RNeg(result.zValue)

C6_Witness ==
    Done /\ WellFormed /\ type = "MAX" /\ result.status = "OPTIMAL" /\ result.zValue # Zero

\* x and y differ by no more than 1e-9
WithinTol9(x, y) == ~DLt(Tol9, DAbs(DSub(x, y)))

\* every basic column is a unit column: 1 in its own row, 0 in every other
\* row, the objective row included
Canonical ==
    \A k \in DOMAIN basis : \A r \in DOMAIN Live :
        WithinTol9(Live[r][basis[k]], IF r = k + 1 THEN DInt(1) ELSE DZero)

\* C7: at the start of every engine run and after every pivot the tableau
\* is in canonical form for the basis (within 1e-9), and the objective
\* row's own column is always 1.
C7_CanonicalForm ==
    /\ pc = "loop" => Canonical
    /\ headers # <<>> => Live[0][0] = DInt(1)

\* C8: the last step of every non-empty returned trace is a terminal step
\* (optimal or unbounded), never a pivot-iteration step, also when the
\* iteration cap was exhausted.
C8_LastStepIsTerminal ==
    (Done /\ Len(result.steps) > 0) =>
        result.steps[Len(result.steps)].kind \in {"optimal", "unbounded"}

PivotSteps(p) ==
    Cardinality({i \in 1..Len(steps) : steps[i].kind = "iteration" /\ steps[i].phase = p})

\* the engine runs still to come, the one in progress included
RunsLeft == IF phase = 1 THEN 2 ELSE 1

\* an upper bound on the steps the call can still take
StepsLeft ==
    CASE pc = "start"    -> 2 * (maxIter + 2) + 3
      [] pc = "branch"   -> 2 * (maxIter + 2) + 2
      [] pc = "loop"     -> (RunsLeft - 1) * (maxIter + 2) + (maxIter - iter) + 3
      [] pc = "returned" -> (RunsLeft - 1) * (maxIter + 2) + 2
      [] pc = "extract"  -> 1
      [] pc = "done"     -> 0

\* C9: an engine run makes at most 50 pivots; a run that has made 50 pivots
\* stops and returns UNBOUNDED; and every step of a call brings its return
\* nearer, by a count that starts finite and cannot go below zero, so the
\* call returns after at most 50 pivots per phase.
C9_PivotCap ==
    /\ [](/\ iter <= maxIter
          /\ \A p \in 0..2 : PivotSteps(p) <= maxIter
          /\ (pc = "loop" /\ iter = maxIter) => ~LoopContinues(iter)
          /\ (pc = "returned" /\ iter = maxIter) => engineResult = "UNBOUNDED"
          /\ StepsLeft >= 0)
    /\ [][StepsLeft' < StepsLeft]_vars

C9_Witness == pc = "returned" /\ iter = maxIter /\ engineResult = "UNBOUNDED"

\* C10: the call always returns one of OPTIMAL, INFEASIBLE, UNBOUNDED, ERROR;
\* a call in which an exception is thrown returns ERROR, and an ERROR result
\* has a message, an empty trace, no final values and zValue 0.
C10_ErrorsAreCaught ==
    /\ Done => result.status \in {"OPTIMAL", "INFEASIBLE", "UNBOUNDED", "ERROR"}
    /\ (Done /\ ~WellFormed) => result.status = "ERROR"
    /\ result.status = "ERROR" =>
          /\ result.errorMessage # NoMessage
          /\ result.steps = <<>>
          /\ result.finalValues = NoValues
          /\ result.zValue = Zero

C10_Witness == Done /\ ~WellFormed /\ result.status = "ERROR"

\* the max attribute of the count fields of ConfigPanel
FieldMax == 10

\* a step of the App that calls solveLinearProgram
CallsSolver == step = "INPUT" /\ step' = "RESULT"

\* C11: whatever was done on the configuration screen, every call of
\* solveLinearProgram passes between 1 and 10 objective coefficients and
\* between 1 and 10 constraints.
C11_CountsWithinBound ==
    [][CallsSolver => /\ Len(objCoeffs) \in 1..FieldMax
                      /\ Len(constraints) \in 1..FieldMax]_vars

\* C12: whenever solveLinearProgram is called there are numVars objective
\* coefficients and numConstraints constraints, and every constraint has as
\* many coefficients as the objective.
C12_ShapesAgree ==
    [][CallsSolver => /\ Len(objCoeffs) = numVars
                      /\ Len(constraints) = numConstraints
                      /\ \A i \in 1..Len(constraints) :
                            Len(constraints[i].coefficients) = Len(objCoeffs)]_vars

C12_Witness ==
    /\ step = "RESULT"
    /\ result # NoResult
    /\ numVars # INITIAL_VARS
    /\ objCoeffs[1] # Zero
    /\ constraints[1].coefficients[1] # Zero

Screens == {"SETUP", "INPUT", "RESULT"}
ScreenChanges ==
    {<<"SETUP", "INPUT">>, <<"INPUT", "SETUP">>, <<"INPUT", "RESULT">>, <<"RESULT", "SETUP">>}

\* C17: the screen changes only by Continue, Back, Solve and Reset; while the
\* RESULT screen is shown a result is stored; Reset clears the stored result.
C17_ScreenMachine ==
    /\ [](step \in Screens /\ (step = "RESULT" => result # NoResult))
    /\ [][/\ step' # step => <<step, step'>> \in ScreenChanges
          /\ (step = "RESULT" /\ step' = "SETUP") => result' = NoResult]_vars

C17_Witness ==
    /\ step = "RESULT"
    /\ result # NoResult
    /\ result.status \in {"OPTIMAL", "INFEASIBLE", "UNBOUNDED"}
    /\ numVars = INITIAL_VARS

\* the positions of the trace whose step belongs to phase p
PhaseSteps(p) == {i \in 1..Len(steps) : steps[i].phase = p}

\* the objective-row right-hand side a step recorded is within 1e-5 of zero
RecordedWIsZero(st) == ~GtTol(RAbs(st.tableau[0].rhs), TolInv5)

\* the last phase-1 step of the trace
LastPhase1Step == steps[CHOOSE i \in PhaseSteps(1) : \A j \in PhaseSteps(1) : j <= i]

ArtificialStillPositive ==
    \E k \in DOMAIN basis :
        /\ headers[basis[k]][1] = "a"
        /\ GtTol(Live[k + 1][RhsCol(headers)], TolInv5)

\* C14: under BIG_M with an artificial variable, a call whose engine run
\* ended OPTIMAL returns INFEASIBLE exactly when an artificial variable is
\* basic at a value above 1e-5 and OPTIMAL otherwise; any other engine result
\* is the status returned.
C14_BigMFeasibilityCheck ==
    (Done /\ WellFormed /\ UsesBigM(method, constraints)) =>
        /\ engineResult = "OPTIMAL" =>
              /\ result.status \in {"OPTIMAL", "INFEASIBLE"}
              /\ result.status = "INFEASIBLE" <=> ArtificialStillPositive
        /\ engineResult # "OPTIMAL" => result.status = engineResult

C14_Witness ==
    /\ Done
    /\ UsesBigM(method, constraints)
    /\ engineResult = "OPTIMAL"
    /\ ArtificialStillPositive
    /\ result.status = "INFEASIBLE"

\* the step taken appends a pivot step to the trace
AppendsPivotStep ==
    Len(steps') = Len(steps) + 1 /\ steps'[Len(steps')].kind = "iteration"

\* the constraint rows with a coefficient above 1e-9 in column ec
EligibleRows(ec) == {r \in DOMAIN Live \ {0} : GtTol(Live[r][ec], TolInv9)}

RowRatio(r, ec) == RDiv(Live[r][RhsCol(headers)], Live[r][ec])

\* C15: the leaving row of every pivot has an entering-column coefficient
\* above 1e-9 (so the pivot value is positive and the normalisation divides
\* by a non-zero number), no eligible row has a smaller RHS/coefficient
\* ratio, and no eligible row with the same ratio has a lower index.
C15_RatioTest ==
    [][AppendsPivotStep =>
          LET lr == steps'[Len(steps')].pivotRow
              ec == steps'[Len(steps')].pivotCol
          IN  /\ lr \in EligibleRows(ec)
              /\ RLt(Zero, Live[lr][ec])
              /\ \A r \in EligibleRows(ec) :
                    /\ RLe(RowRatio(lr, ec), RowRatio(r, ec))
                    /\ RowRatio(r, ec) = RowRatio(lr, ec) => lr <= r
              /\ heap'[matrix[lr]][ec] = One]_vars

C15_Witness ==
    /\ pc = "loop"
    /\ iter > 0
    /\ Len(constraints) >= 2
    /\ steps[Len(steps)].kind = "iteration"
    /\ steps[Len(steps)].pivotRow > 1

\* the columns the entering scan looks at: all but the objective's own
\* column and the right-hand side
ScannedCols == 1..(ColCount(headers) - 2)

\* the columns whose objective-row coefficient is below -1e-9
NegativeCols == {c \in ScannedCols : LtNegTol(Live[0][c], TolInv9)}

\* the step taken appends a step that has an entering column
AppendsEnteringStep ==
    Len(steps') = Len(steps) + 1 /\ steps'[Len(steps')].kind # "optimal"

\* C16: the entering column of every iteration is a column, other than the
\* objective's own and the right-hand side, whose objective-row coefficient
\* is below -1e-9 and the most negative, the lowest such column on ties; and
\* the engine returns OPTIMAL exactly when no column has a coefficient below
\* -1e-9.
C16_EnteringColumn ==
    /\ [][AppendsEnteringStep =>
             \E ec \in NegativeCols :
                /\ steps'[Len(steps')].enteringVar = headers[ec]
                /\ steps'[Len(steps')].kind = "iteration" => steps'[Len(steps')].pivotCol = ec
                /\ \A c \in ScannedCols :
                      /\ RLe(Live[0][ec], Live[0][c])
                      /\ Live[0][c] = Live[0][ec] => ec <= c]_vars
    /\ [](pc = "returned" => (engineResult = "OPTIMAL" <=> NegativeCols = {}))

NonNegativeRhs == \A i \in 1..Len(constraints) : RLe(Zero, constraints[i].rhs)

\* the names of the artificial variables of the call
ArtificialNames == {headers[c] : c \in {k \in DOMAIN headers : StartsWithA(headers[k])}}

\* C18: an OPTIMAL result of TWO_PHASE or BIG_M on a problem with
\* non-negative right-hand sides is a feasible point of the problem: every
\* artificial variable is at most 1e-5, and the decision values are
\* non-negative and satisfy every constraint.
C18_OptimalIsFeasible ==
    (Done /\ WellFormed /\ method \in {"TWO_PHASE", "BIG_M"} /\ NonNegativeRhs
          /\ result.status = "OPTIMAL") =>
        /\ \A a \in ArtificialNames : ~GtTol(result.finalValues[a], TolInv5)
        /\ \A j \in 1..Len(objCoeffs) : RLe(Zero, DecisionValues[j])
        /\ Satisfies(DecisionValues, constraints)

\* C19: on a problem whose right-hand sides are all non-negative, every
\* pivot leaves the RHS entry of every constraint row non-negative and does
\* not decrease the RHS entry of the objective row.
C19_RhsStaysNonNegative ==
    [][(AppendsPivotStep /\ NonNegativeRhs) =>
          /\ \A r \in DOMAIN matrix \ {0} : ~DLt(MatRhs(Live', r), DZero)
          /\ ~DLt(MatRhs(Live', 0), MatRhs(Live, 0))]_vars

\* C20: once the tableau is built the basis has one entry per constraint
\* row, every entry is a column other than the objective's own column and
\* the RHS column, and no two rows have the same entry.
C20_BasisDistinct ==
    headers # <<>> =>
        /\ DOMAIN basis = 0..(Len(constraints) - 1)
        /\ \A k \in DOMAIN basis : basis[k] \in 1..(ColCount(headers) - 2)
        /\ \A j, k \in DOMAIN basis : j # k => basis[j] # basis[k]

====
